---- MODULE Spec2Model ----
(***************************************************************************)
(* A model of src/src/utils/workflow.py: the Workflow registry of Stages,  *)
(* the per-stage freshness resolution (query, _pre_run, run, _post_run),   *)
(* the Github-release cache adapter calls it makes, and Workflow.run.      *)
(*                                                                         *)
(* Timestamps are integers of one logical clock (now).  The local file     *)
(* system is the set of existing files (local), their modification times   *)
(* (mtime) and the set of existing directories (dirs).  The remote store   *)
(* is the set of releases, and the assets of the release cache_tag names.  *)
(***************************************************************************)
EXTENDS Integers, Sequences, FiniteSets, TLC

VARIABLES
    stages,           \* Workflow.stages: sequence of Stage objects
    cache_tag,        \* Workflow.cache_tag
    cache_connected,  \* Workflow._cache_connected: None, "True" or "False"
    cache_tags,       \* Workflow._cache_tags
    local,            \* the files that exist locally
    mtime,            \* st_mtime of every local file
    dirs,             \* the directories that exist locally
    stage_time,       \* mtime of the file defining each stage's class
    releases,         \* remote: tags of the releases that exist
    assets,           \* remote: names of the assets of release TagV2
    updated_at,       \* remote: "updated_at" of every asset
    now,              \* the clock
    changes,          \* the number of changes made by the environment
    faults,           \* the number of stage.run calls in which something failed
    pc,               \* "idle"; in run(): "running"; just after it: "returned", "raised"
    idx,              \* Workflow.run: position of the loop over self.stages
    rerun_stages,     \* Workflow.run: rerun_stages
    report,           \* history: per stage, what the current run() did with it
    events,           \* history: the remote operations of the latest stage.run
    exc,              \* history: the exception that ended the latest call
    consecutive,      \* history: this run() began right after a run() that returned
    scenario,         \* history: the calls and changes since Init, while few and fault-free
    before,           \* history: Workflow.stages before the latest add_stage
    call,             \* history: the arguments of the latest add_stage
    owed,             \* history: the stages the run() that the latest new process
                      \* cut short left unresolved after a dependency had executed
    stage_status,     \* history: the dict the latest query_stages returned
    uploaded          \* history: the assets that the run() before this one, which
                      \* returned, uploaded

vars == <<stages, cache_tag, cache_connected, cache_tags, local, mtime, dirs,
          stage_time, releases, assets, updated_at, now, changes, faults, pc,
          idx, rerun_stages, report, events, exc, consecutive, scenario, before, call, owed,
          stage_status, uploaded>>

-----------------------------------------------------------------------------
(* Values *)

None == "None"

\* the value _get_local_time and _get_cache_time return for "missing"
MissingTime == -99

\* DummyStage._get_stage_time
DummyStageTime == -100

\* analysis.py: workflow.cache_tag = "v2"
TagV2 == "v2"

Path(parent, name) == [parent |-> parent, name |-> name]

\* no file
NoPath == Path(None, None)

\* no exception; an exception: its type, the stage and the file or the
\* dependency its message names
NoExc == [type |-> "none", stage |-> None, file |-> NoPath, dep |-> None]

Raise(type, stage, file, dep) == [type |-> type, stage |-> stage, file |-> file, dep |-> dep]

\* dependencies, as add_stage receives them: None, a str, or a list
DepNone == [tag |-> "None", names |-> <<>>]
DepStr(n) == [tag |-> "str", names |-> <<n>>]
DepList(ns) == [tag |-> "list", names |-> ns]

\* output, as add_stage receives it: one path, or a list of paths
OutPath(f) == [tag |-> "path", files |-> <<f>>]
OutList(fs) == [tag |-> "list", files |-> fs]

\* no add_stage call; a call: its name, stage and dependencies arguments
NoCall == [name |-> None, stage |-> None, dependencies |-> DepNone]

Range(s) == {s[i] : i \in 1..Len(s)}

\* query_stages was not called
NoStatus == [n \in {} |-> None]

\* the least element of a set of positions
First(ks) == CHOOSE k \in ks : \A j \in ks : k <= j

-----------------------------------------------------------------------------
(* Stage.__init__ and Workflow.add_stage *)

\* Stage.__init__: the object add_stage appends
NewStage(name, class, output, dependencies, cache) ==
    [name |-> name, class |-> class, output |-> output,
     dependencies |-> dependencies, cache |-> cache, resolution |-> None]

\* the check of the name: some registered stage has this name
NameUsed(stgs, name) == \E i \in 1..Len(stgs) : name = stgs[i].name

\* the check of the dependencies, were it made for a list or tuple only
MissingDepsOfList(stgs, dependencies) ==
    IF dependencies.tag # "list" THEN {}
    ELSE {i \in 1..Len(dependencies.names) :
             ~ \E j \in 1..Len(stgs) : dependencies.names[i] = stgs[j].name}

\* the check of the dependencies: the names not found among the registered stages
MissingDeps(stgs, dependencies) ==
    IF dependencies.tag = "None" THEN {}
    ELSE {i \in 1..Len(dependencies.names) :
             ~ \E j \in 1..Len(stgs) : dependencies.names[i] = stgs[j].name}

\* add_stage, were the stage appended before its dependencies are checked
add_stage_append_first(stgs, name, stage, output, dependencies, cache) ==
    IF NameUsed(stgs, name)
    THEN [stages |-> stgs, exc |-> Raise("ValueError:name", name, NoPath, None)]
    ELSE IF MissingDeps(stgs, dependencies) # {}
    THEN [stages |-> Append(stgs, NewStage(name,
                                  IF stage = None THEN "DummyStage" ELSE "Stage",
                                  output, dependencies, cache)),
          exc |-> Raise("ValueError:dependency", name, NoPath,
                        dependencies.names[First(MissingDeps(stgs, dependencies))])]
    ELSE IF stage # None /\ stage # "Stage"
    THEN [stages |-> stgs, exc |-> Raise("TypeError", name, NoPath, None)]
    ELSE [stages |-> Append(stgs, NewStage(name,
                                  IF stage = None THEN "DummyStage" ELSE "Stage",
                                  output, dependencies, cache)),
          exc |-> NoExc]

\* Workflow.add_stage: the stage list and the exception it ends with.
\* stage is None (DummyStage), "Stage" (a subclass of Stage) or anything else.
add_stage(stgs, name, stage, output, dependencies, cache) ==
    IF NameUsed(stgs, name)
    THEN [stages |-> stgs, exc |-> Raise("ValueError:name", name, NoPath, None)]
    ELSE IF MissingDeps(stgs, dependencies) # {}
    THEN [stages |-> stgs,
          exc |-> Raise("ValueError:dependency", name, NoPath,
                        dependencies.names[First(MissingDeps(stgs, dependencies))])]
    ELSE IF stage # None /\ stage # "Stage"
    THEN [stages |-> stgs, exc |-> Raise("TypeError", name, NoPath, None)]
    ELSE [stages |-> Append(stgs, NewStage(name,
                                  IF stage = None THEN "DummyStage" ELSE "Stage",
                                  output, dependencies, cache)),
          exc |-> NoExc]

-----------------------------------------------------------------------------
(* One stage.run call is computed on a record w, "the world":               *)
(*   stages, cache_connected, cache_tags, local, mtime, dirs, releases,     *)
(*   assets, updated_at, now : as the variables of these names;             *)
(*   n      : the number of Github calls made so far in this stage.run;     *)
(*   fail   : the calls (by their number) that fail with an exception;      *)
(*   exc    : the exception that is propagating, or NoExc;                  *)
(*   events : the put, delete and get calls that were made;                 *)
(*   rep    : what this stage.run did (the entry of report for the stage).  *)
(* A value bound by an assignment of the code is the parameter of the       *)
(* operator that models the statements after the assignment.                *)

\* Stage._output_list
output_list(s) == s.output.files

Min2(a, b) == IF a <= b THEN a ELSE b

\* min(...) of a sequence of times
RECURSIVE MinTime(_)
MinTime(ts) ==
    IF Len(ts) = 1 THEN ts[1] ELSE Min2(ts[1], MinTime(Tail(ts)))

\* a Github call is made: it fails if its number is in w.fail
Fails(w) == (w.n + 1) \in w.fail
Called(w) == [w EXCEPT !.n = @ + 1]
Raised(w, e) == [w EXCEPT !.exc = e]
Event(w, op, name) == [w EXCEPT !.events = Append(@, <<op, name>>)]

\* the exception of a Github call that fails
GithubError == Raise("GithubError", None, NoPath, None)

\* github_release.get_releases: the tag names, in a fixed order
RECURSIVE TagList(_)
TagList(tags) ==
    IF tags = {} THEN <<>>
    ELSE <<CHOOSE x \in tags : TRUE>> \o TagList(tags \ {CHOOSE x \in tags : TRUE})

\* Workflow._connect_to_cache, after get_releases returned tags
connect_tags(w, tags) ==
    IF cache_tag = None THEN [w EXCEPT !.cache_tags = tags]
    ELSE IF cache_tag \notin w.releases
    THEN IF Fails(w)
         THEN \* gh_release_create raised
              Raised(Called(w), GithubError)
         ELSE [Called(w) EXCEPT !.releases = @ \cup {cache_tag},
                                !.cache_tags = <<cache_tag>> \o tags]
    ELSE [w EXCEPT !.cache_tags = tags]

\* Workflow._connect_to_cache, after get_refs returned
connect_releases(w) ==
    IF Fails(w)
    THEN \* get_releases raised, outside the try
         Raised(Called(w), GithubError)
    ELSE connect_tags(Called(w), TagList(w.releases))

\* Workflow._connect_to_cache, were a failed connection attempted again
connect_to_cache_retry(w) ==
    IF w.cache_connected = "True" THEN w
    ELSE IF Fails(w)
    THEN [Called(w) EXCEPT !.cache_connected = "False"]
    ELSE connect_releases([Called(w) EXCEPT !.cache_connected = "True"])

\* Workflow._connect_to_cache (verbose is False, as Workflow.__init__ sets it)
connect_to_cache(w) ==
    IF w.cache_connected # None THEN w
    ELSE IF Fails(w)
    THEN \* get_refs raised
         [Called(w) EXCEPT !.cache_connected = "False"]
    ELSE connect_releases([Called(w) EXCEPT !.cache_connected = "True"])

\* github_release.get_asset_info(github_name, cache_tag, name): the call raises
\* when it fails, when there is no such release and when the release has no
\* such asset
AssetInfoRaises(w, name) ==
    Fails(w) \/ cache_tag \notin w.releases \/ name \notin w.assets

\* the loop of _get_cache_time over the files: [w, t], t = MissingTime as soon
\* as a get_asset_info raises (the except returns -99)
RECURSIVE AssetTimes(_, _, _)
AssetTimes(w, files, times) ==
    IF files = <<>> THEN [w |-> w, t |-> MinTime(times)]
    ELSE IF AssetInfoRaises(w, files[1].name)
    THEN [w |-> Called(w), t |-> MissingTime]
    ELSE AssetTimes(Called(w), Tail(files),
                    Append(times, w.updated_at[files[1].name]))

\* Stage._get_cache_time, after workflow._connect_to_cache()
cache_time_connected(w, files) ==
    IF w.exc # NoExc \/ w.cache_connected # "True"
    THEN [w |-> w, t |-> MissingTime]
    ELSE AssetTimes(w, files, <<>>)

\* Stage._get_cache_time(workflow, output): [w, t]; files is the output list
\* when output is None, and <<output>> otherwise.  An exception of
\* _connect_to_cache is left in w.exc.
get_cache_time(w, files) == cache_time_connected(connect_to_cache(w), files)

\* Stage._check_output_exists
check_output_exists(w, files) == \A i \in 1..Len(files) : files[i] \in w.local

\* Stage._get_local_time(output): the existence of ALL outputs of the stage is
\* tested first, then the minimum over files is returned
get_local_time(w, s, files) ==
    IF ~ check_output_exists(w, output_list(s)) THEN MissingTime
    ELSE MinTime([i \in 1..Len(files) |-> w.mtime[files[i]]])

\* Stage._get_stage_time and DummyStage._get_stage_time
get_stage_time(s) ==
    IF s.class = "DummyStage" THEN DummyStageTime ELSE stage_time[s.name]

\* np.argmax, were it to return the index of the last maximal element
ArgMaxLast(times) ==
    CHOOSE i \in 1..Len(times) :
        /\ \A j \in 1..Len(times) : times[j] <= times[i]
        /\ \A j \in (i + 1)..Len(times) : times[j] < times[i]

\* np.argmax(times): the index of the first maximal element
ArgMax(times) ==
    CHOOSE i \in 1..Len(times) :
        /\ \A j \in 1..Len(times) : times[j] <= times[i]
        /\ \A j \in 1..(i - 1) : times[j] < times[i]

\* ["local", "cache", "stage"][np.argmax(times)]
Newest(times) == <<"local", "cache", "stage">>[ArgMax(times)]

\* Stage.query: the dict returned, c being the second _get_cache_time
query_result(s, exist_local, exist_cache, c) ==
    [w |-> c.w,
     status |-> [local |-> exist_local, cache |-> exist_cache,
                 newest |-> Newest(<<get_local_time(c.w, s, output_list(s)), c.t,
                                     get_stage_time(s)>>)]]

\* Stage.query, after _check_output_cache_exists, c being its _get_cache_time
query_times(s, exist_local, c) ==
    IF c.w.exc # NoExc
    THEN [w |-> c.w, status |-> [local |-> exist_local, cache |-> FALSE, newest |-> None]]
    ELSE query_result(s, exist_local, c.t > MissingTime,
                      get_cache_time(c.w, output_list(s)))

\* Stage.query(workflow): [w, status]
query(w, s) ==
    query_times(s, check_output_exists(w, output_list(s)),
                get_cache_time(w, output_list(s)))

\* Stage.query(), workflow being None: _get_cache_time returns -99 at once
query_no_workflow(w, s) ==
    [local |-> check_output_exists(w, output_list(s)),
     cache |-> MissingTime > MissingTime,
     newest |-> Newest(<<get_local_time(w, s, output_list(s)), MissingTime,
                         get_stage_time(s)>>)]

\* Workflow.query_stages: {stage.name: stage.query() for stage in self.stages}
query_stages(w) ==
    [n \in {w.stages[i].name : i \in 1..Len(w.stages)} |->
        query_no_workflow(w, w.stages[CHOOSE i \in 1..Len(w.stages) :
                                          w.stages[i].name = n])]

\* github_release.get_assets(github_name, cache_tag): raises when the call
\* fails and when there is no such release
GetAssetsRaises(w) == Fails(w) \/ cache_tag \notin w.releases

\* os.utime(file, times=(c.t, c.t)), c being the _get_cache_time before it
utime(c, file) == [c.w EXCEPT !.mtime[file] = c.t]

\* github_release.gh_asset_upload, made at w.now: the asset is created or
\* replaced and its updated_at is the time of the upload
asset_upload(w, name) ==
    [Event(Called(w), "put", name) EXCEPT
        !.assets = @ \cup {name}, !.updated_at[name] = w.now, !.now = @ + 1,
        !.rep.put = @ \cup {name}]

\* github_release.gh_asset_delete
asset_delete(w, name) ==
    [Event(Called(w), "delete", name) EXCEPT
        !.assets = @ \ {name}, !.updated_at[name] = 0]

\* github_release.gh_asset_download into file.parent: the file is written
asset_download(w, file) ==
    [Event(Called(w), "get", file.name) EXCEPT
        !.local = @ \cup {file}, !.mtime[file] = w.now]

\* _cache_output, one file: "Now upload asset" and "Set local timestamp"
cache_upload(w, file) ==
    IF w.exc # NoExc THEN w
    ELSE IF Fails(w) THEN Raised(Called(w), GithubError)
    ELSE utime(get_cache_time(asset_upload(w, file.name), <<file>>), file)

\* _cache_output, one file: "If asset already in cache, we must delete it first"
cache_delete(w, file, asset_names) ==
    IF file.name \notin asset_names THEN w
    ELSE IF Fails(w) THEN Raised(Called(w), GithubError)
    ELSE asset_delete(w, file.name)

\* _cache_output, one file: "Skip if cache up-to-date"
cache_compare(file, asset_names, local_mt, c) ==
    IF c.t >= local_mt THEN c.w
    ELSE cache_upload(cache_delete(c.w, file, asset_names), file)

\* the body of the loop of _cache_output for one file
cache_one_file(w, s, file, asset_names) ==
    cache_compare(file, asset_names, get_local_time(w, s, <<file>>),
                  get_cache_time(w, <<file>>))

\* the loop of _cache_output over the files
RECURSIVE cache_files(_, _, _, _)
cache_files(w, s, files, asset_names) ==
    IF files = <<>> \/ w.exc # NoExc THEN w
    ELSE cache_files(cache_one_file(w, s, files[1], asset_names), s,
                     Tail(files), asset_names)

\* Stage._cache_output, after workflow._connect_to_cache()
cache_output_connected(w, s) ==
    IF w.exc # NoExc THEN w
    ELSE IF w.cache_connected # "True" THEN w
    ELSE IF GetAssetsRaises(w) THEN Raised(Called(w), GithubError)
    ELSE cache_files(Called(w), s, output_list(s), w.assets)

\* Stage._cache_output(workflow)
cache_output(w, s) == cache_output_connected(connect_to_cache(w), s)

\* the outputs whose parent directory does not exist, by position
MissingParents(w, s) ==
    {i \in 1..Len(output_list(s)) : output_list(s)[i].parent \notin w.dirs}

\* Stage._prep_output_destination: a Stage has no attribute verbose, so the
\* first output whose parent is missing ends the call with an AttributeError,
\* before the mkdir
prep_output_destination(w, s) ==
    IF MissingParents(w, s) = {} THEN w
    ELSE Raised(w, Raise("AttributeError", s.name,
                         output_list(s)[First(MissingParents(w, s))], None))

\* the body of the loop of _download_cached_output for one file
download_one_file(w, file) ==
    IF Fails(w) \/ cache_tag \notin w.releases \/ file.name \notin w.assets
    THEN Raised(Called(w), GithubError)
    ELSE utime(get_cache_time(asset_download(w, file), <<file>>), file)

\* the loop of _download_cached_output over the files
RECURSIVE download_files(_, _)
download_files(w, files) ==
    IF files = <<>> \/ w.exc # NoExc THEN w
    ELSE download_files(download_one_file(w, files[1]), Tail(files))

\* Stage._download_cached_output, after self._prep_output_destination()
download_prepared(w, s) ==
    IF w.exc # NoExc THEN w ELSE download_files(w, output_list(s))

\* Stage._download_cached_output, after workflow._connect_to_cache()
download_connected(w, s) ==
    IF w.exc # NoExc THEN w
    ELSE IF w.cache_connected # "True"
    THEN Raised(w, Raise("RuntimeError:connect", s.name, NoPath, None))
    ELSE download_prepared(prep_output_destination(w, s), s)

\* Stage._download_cached_output(workflow)
download_cached_output(w, s) == download_connected(connect_to_cache(w), s)

\* what a run() did with a stage, before the stage is reached: whether it was
\* queried and the status query returned, dep_changed, whether a download was
\* tried, whether _run was called, the reason printed for running, and the
\* names of the assets that were uploaded
NoReport ==
    [queried |-> FALSE,
     status |-> [local |-> FALSE, cache |-> FALSE, newest |-> None],
     dep_changed |-> FALSE, download |-> FALSE, ran |-> FALSE, reason |-> None,
     put |-> {}]

\* the reason for running, were a changed dependency not among the reasons
RunReasonNoDep(status, dep_changed) ==
    IF ~ status.local /\ ~ status.cache THEN "output does not exist"
    ELSE IF status.newest = "cache" THEN "cache download failed"
    ELSE IF status.newest = "stage" THEN "stage changed"
    ELSE None

\* the reason _pre_run prints for running the stage; None: "Edge case in run logic!"
RunReason(status, dep_changed) ==
    IF ~ status.local /\ ~ status.cache THEN "output does not exist"
    ELSE IF status.newest = "cache" THEN "cache download failed"
    ELSE IF status.newest = "stage" THEN "stage changed"
    ELSE IF dep_changed THEN "dependency changed"
    ELSE None

\* Stage._pre_run: "If the stage is not resolved, we will need to run it"
pre_run_reason(w, i, status, dep_changed) ==
    IF w.exc # NoExc THEN w
    ELSE IF w.stages[i].resolution # None THEN w
    ELSE IF RunReason(status, dep_changed) = None
    THEN Raised(w, Raise("RuntimeError:EdgeCase", w.stages[i].name, NoPath, None))
    ELSE [w EXCEPT !.rep.reason = RunReason(status, dep_changed)]

\* Stage._pre_run: the try ... except Exception around the download
pre_run_download(w, i) ==
    IF w.exc = NoExc THEN [w EXCEPT !.stages[i].resolution = "cache"]
    ELSE [w EXCEPT !.exc = NoExc]

\* the skip branch of _pre_run, were _cache_output called whatever self.cache
pre_run_local_always(w, i) == cache_output(w, w.stages[i])

\* Stage._pre_run: self.resolution = "local"; if self.cache: self._cache_output
pre_run_local(w, i) ==
    IF w.stages[i].cache THEN cache_output(w, w.stages[i]) ELSE w

\* Stage._pre_run: the if ... elif ... elif on the status
pre_run_branch(w, i, status, dep_changed) ==
    IF status.newest = "local" /\ ~ dep_changed
    THEN pre_run_local([w EXCEPT !.stages[i].resolution = "local"], i)
    ELSE IF status.newest = "cache" /\ ~ dep_changed
    THEN pre_run_download(
             download_cached_output([w EXCEPT !.rep.download = TRUE], w.stages[i]), i)
    ELSE IF w.stages[i].class = "DummyStage"
    THEN Raised(w, Raise("RuntimeError:DummyStage", w.stages[i].name, NoPath, None))
    ELSE w

\* Stage._pre_run, after status = self.query(workflow)
pre_run_status(q, i, dep_changed) ==
    IF q.w.exc # NoExc THEN q.w
    ELSE pre_run_reason(
             pre_run_branch([q.w EXCEPT !.rep.queried = TRUE, !.rep.status = q.status,
                                        !.rep.dep_changed = dep_changed],
                            i, q.status, dep_changed),
             i, q.status, dep_changed)

\* Stage._pre_run(workflow, dep_changed) of the stage at position i
pre_run(w, i, dep_changed) == pre_run_status(query(w, w.stages[i]), i, dep_changed)

\* Stage._run of a subclass, as the core sees it: it raises, or it returns
\* having written the files outcome.writes (a subset of the declared outputs)
\* at the current time.  DummyStage._run does nothing.
run_main(w, s, outcome) ==
    IF s.class = "DummyStage" THEN w
    ELSE IF outcome.raises THEN Raised(w, Raise("StageError", s.name, NoPath, None))
    ELSE IF outcome.writes = {} THEN w
    ELSE [w EXCEPT !.local = @ \cup outcome.writes,
                   !.mtime = [f \in DOMAIN @ |-> IF f \in outcome.writes THEN w.now ELSE @[f]],
                   !.now = @ + 1]

\* the files of a sequence that do not exist locally, by position
MissingOutputs(w, files) == {k \in 1..Len(files) : files[k] \notin w.local}

\* Stage._post_run, were the outputs not checked
post_run_unchecked(w, s) == w

\* Stage._post_run
post_run(w, s) ==
    IF MissingOutputs(w, output_list(s)) = {} THEN w
    ELSE Raised(w, Raise("RuntimeError:missing", s.name,
                         output_list(s)[First(MissingOutputs(w, output_list(s)))], None))

\* the test of Stage.run, were a stage that ran before executed again
NeedsRunOrRan(resolution) == resolution \in {None, "run"}

\* the test "self.resolution is None" of Stage.run (workflow is not None)
NeedsRun(resolution) == resolution = None

\* Stage.run: "Indicate that this stage was run", then the post-run steps
run_done(w, i) ==
    IF w.exc # NoExc THEN w
    ELSE post_run([w EXCEPT !.stages[i].resolution = "run"], w.stages[i])

\* Stage.run: "Run the main algorithm", after _prep_output_destination
run_prepared(w, i, outcome) ==
    IF w.exc # NoExc THEN w
    ELSE run_done(run_main([w EXCEPT !.rep.ran = TRUE], w.stages[i], outcome), i)

\* Stage.run, after the pre-run steps
run_after_pre(w, i, outcome) ==
    IF w.exc # NoExc THEN w
    ELSE IF NeedsRun(w.stages[i].resolution)
    THEN run_prepared(prep_output_destination(w, w.stages[i]), i, outcome)
    ELSE post_run(w, w.stages[i])

\* Stage.run(workflow, dep_changed) of the stage at position i, as
\* Workflow.run calls it
Stage_run(w, i, dep_changed, outcome) ==
    run_after_pre(pre_run(w, i, dep_changed), i, outcome)

\* Workflow.run: dep_changed of a stage, from rerun_stages
DepChanged(s, rerun) ==
    IF s.dependencies.tag = "None" THEN FALSE
    ELSE \E k \in 1..Len(s.dependencies.names) : s.dependencies.names[k] \in Range(rerun)

-----------------------------------------------------------------------------
(* Bounds *)

\* at most MaxChanges changes are made by the environment
MaxChanges == 2

\* in at most MaxFaults stage.run calls a Github call fails or Stage._run
\* breaks its contract
MaxFaults == 1

\* the Github calls of one stage.run that may fail are the first MaxCalls
MaxCalls == 16

\* the scenario history records at most MaxScript calls and changes
MaxScript == 4

\* the timestamps of the queried states are 1..MaxTime
MaxTime == 3

\* a list of dependencies has at most MaxDeps names
MaxDeps == 2

-----------------------------------------------------------------------------
(* The workflows *)

fA == Path("out", "a.txt")
fB == Path("out", "b.txt")
fC == Path("out", "c.txt")
fE == Path("out", "e.txt")
fIn == Path("in", "input.csv")
fA2 == Path("in", "a.txt")

Files == {fA, fB, fC, fE, fIn, fA2}
Dirs == {f.parent : f \in Files}
AssetNames == {f.name : f \in Files}
StageNames == {"A", "B", "C", "D", "E"}

\* a sequence of add_stage calls on an empty Workflow
RECURSIVE Build(_, _)
Build(stgs, calls) ==
    IF calls = <<>> THEN stgs
    ELSE Build(add_stage(stgs, calls[1][1], calls[1][2], calls[1][3],
                         calls[1][4], calls[1][5]).stages, Tail(calls))

\* A and B: B depends on A, no stage is cached
WorkflowAB ==
    Build(<<>>, << <<"A", "Stage", OutPath(fA), DepNone, FALSE>>,
                   <<"B", "Stage", OutPath(fB), DepStr("A"), FALSE>> >>)

\* C is cached; E depends on C
WorkflowCE ==
    Build(<<>>, << <<"C", "Stage", OutList(<<fC>>), DepNone, TRUE>>,
                   <<"E", "Stage", OutPath(fE), DepList(<<"C">>), FALSE>> >>)

\* D is a DummyStage for an input file; E depends on D
WorkflowDE ==
    Build(<<>>, << <<"D", None, OutList(<<fIn>>), DepNone, FALSE>>,
                   <<"E", "Stage", OutPath(fE), DepList(<<"D">>), FALSE>> >>)

Workflows == {WorkflowAB, WorkflowCE, WorkflowDE}

\* A, and the cached DummyStage D that depends on A and has two outputs
WorkflowAD ==
    Build(<<>>, << <<"A", "Stage", OutPath(fA), DepNone, FALSE>>,
                   <<"D", None, OutList(<<fIn, fB>>), DepStr("A"), TRUE>> >>)

\* C is cached and has two outputs
WorkflowCC ==
    Build(<<>>, << <<"C", "Stage", OutList(<<fC, fE>>), DepNone, TRUE>> >>)

\* C is cached and has two outputs of one file name, in two directories
WorkflowCX ==
    Build(<<>>, << <<"C", "Stage", OutList(<<fA, fA2>>), DepNone, TRUE>> >>)

CachedWorkflows == {WorkflowAD, WorkflowCC, WorkflowCX}

\* the declared outputs of the registered stages
Declared == UNION {Range(output_list(stages[i])) : i \in 1..Len(stages)}

-----------------------------------------------------------------------------
(* History *)

Off == << [ev |-> "off", executed |-> <<>>, returned |-> FALSE,
           resolutions |-> <<>>, put |-> {}, files |-> {}] >>

\* a change: "delete" of files, "newprocess"
ChangeEvent(ev, files) ==
    [ev |-> ev, executed |-> <<>>, returned |-> FALSE, resolutions |-> <<>>,
     put |-> {}, files |-> files]

Record(e) ==
    IF scenario = Off \/ Len(scenario) >= MaxScript THEN Off ELSE Append(scenario, e)

\* the stages whose _run was invoked in the current run(), in order
RECURSIVE ExecutedUpTo(_, _, _)
ExecutedUpTo(stgs, rep, k) ==
    IF k = 0 THEN <<>>
    ELSE ExecutedUpTo(stgs, rep, k - 1) \o
         (IF rep[stgs[k].name].ran THEN <<stgs[k].name>> ELSE <<>>)

Executed(stgs, rep) == ExecutedUpTo(stgs, rep, Len(stgs))

\* a run() call that ended: the stages executed, whether it returned, the
\* resolutions it left and the assets it uploaded
RunEvent(returned, stgs, rep) ==
    [ev |-> "run", executed |-> Executed(stgs, rep), returned |-> returned,
     resolutions |-> [i \in 1..Len(stgs) |-> stgs[i].resolution],
     put |-> UNION {rep[stgs[i].name].put : i \in 1..Len(stgs)}, files |-> {}]

-----------------------------------------------------------------------------
(* The state machine *)

TypeOK ==
    /\ pc \in {"idle", "running", "returned", "raised"}
    /\ idx \in 1..(Len(stages) + 1)
    /\ cache_connected \in {None, "True", "False"}
    /\ local \subseteq Files
    /\ dirs \subseteq Dirs

Init ==
    /\ stages \in Workflows
    /\ cache_tag \in {None, TagV2}
    /\ cache_connected = None
    /\ cache_tags = <<>>
    /\ local = {}
    /\ mtime = [f \in Files |-> 0]
    /\ dirs = Dirs
    /\ stage_time = [s \in StageNames |-> 0]
    /\ releases = {}
    /\ assets = {}
    /\ updated_at = [a \in AssetNames |-> 0]
    /\ now = 1
    /\ changes = 0
    /\ faults = 0
    /\ pc = "idle"
    /\ idx = 1
    /\ rerun_stages = <<>>
    /\ report = [s \in StageNames |-> NoReport]
    /\ events = <<>>
    /\ exc = NoExc
    /\ consecutive = FALSE
    /\ scenario = <<>>
    /\ before = <<>>
    /\ call = NoCall
    /\ owed = {}
    /\ stage_status = NoStatus
    /\ uploaded = {}

\* the sets of failing Github calls of a stage.run that makes n calls when
\* none fails: none, one call, or every call from some call on (a later call
\* cannot be the first to fail)
FailSetsUpTo(m) == {{}} \cup {{k} : k \in 1..m} \cup {k..MaxCalls : k \in 1..m}

FailSets(n) == FailSetsUpTo(Min2(n, MaxCalls))

\* what Stage._run of a stage may do
Outcomes(s) ==
    [raises : {FALSE}, writes : SUBSET Range(output_list(s))]
        \cup {[raises |-> TRUE, writes |-> {}]}

\* the Stage._run that honours the contract: all the outputs are written
Good(s) == [raises |-> FALSE, writes |-> Range(output_list(s))]

World(fail) ==
    [stages |-> stages, cache_connected |-> cache_connected, cache_tags |-> cache_tags,
     local |-> local, mtime |-> mtime, dirs |-> dirs, releases |-> releases,
     assets |-> assets, updated_at |-> updated_at, now |-> now,
     n |-> 0, fail |-> fail, exc |-> NoExc, events |-> <<>>, rep |-> NoReport]

Idle == pc # "running"

\* a change made between two run() calls: what the last run() left in the
\* history is forgotten
Changed ==
    /\ Idle /\ changes < MaxChanges
    /\ changes' = changes + 1
    /\ pc' = "idle"
    /\ idx' = 1
    /\ rerun_stages' = <<>>
    /\ report' = [s \in StageNames |-> NoReport]
    /\ events' = <<>>
    /\ exc' = NoExc
    /\ consecutive' = FALSE
    /\ owed' = {}
    /\ uploaded' = {}

\* Workflow.run is called
RunBegin ==
    /\ Idle
    /\ pc' = "running"
    /\ idx' = 1
    /\ rerun_stages' = <<>>
    /\ report' = [s \in StageNames |-> NoReport]
    /\ events' = <<>>
    /\ exc' = NoExc
    /\ consecutive' = (pc = "returned")
    /\ owed' = IF pc = "idle" THEN owed ELSE {}
    /\ uploaded' = IF pc = "returned"
                   THEN UNION {report[stages[i].name].put : i \in 1..Len(stages)}
                   ELSE {}
    /\ UNCHANGED <<changes, faults, stages, cache_tag, cache_connected, cache_tags,
                   local, mtime, dirs, stage_time, releases, assets, updated_at, now,
                   scenario, before, call, stage_status>>

\* a stage.run in which a Github call fails or _run misbehaves
Faulty(fail, outcome, s) == fail # {} \/ outcome # Good(s)

\* the loop of Workflow.run, were an exception of stage.run caught and the
\* loop continued with the next stage
RunStageContinue ==
    /\ pc = "running"
    /\ idx <= Len(stages)
    /\ \E fail \in IF faults < MaxFaults
                   THEN FailSets(Stage_run(World({}), idx,
                                           DepChanged(stages[idx], rerun_stages),
                                           Good(stages[idx])).n)
                   ELSE {{}},
          outcome \in IF faults < MaxFaults THEN Outcomes(stages[idx])
                      ELSE {Good(stages[idx])} :
         \E w \in {Stage_run(World(fail), idx, DepChanged(stages[idx], rerun_stages),
                              outcome)} :
             /\ w.rep.ran \/ outcome = Good(stages[idx])
             /\ faults' = (IF Faulty(fail, outcome, stages[idx])
                           THEN faults + 1 ELSE faults)
             /\ stages' = w.stages
             /\ cache_connected' = w.cache_connected
             /\ cache_tags' = w.cache_tags
             /\ local' = w.local
             /\ mtime' = w.mtime
             /\ dirs' = w.dirs
             /\ releases' = w.releases
             /\ assets' = w.assets
             /\ updated_at' = w.updated_at
             /\ now' = w.now
             /\ report' = [report EXCEPT ![stages[idx].name] = w.rep]
             /\ events' = w.events
             /\ exc' = w.exc
             /\ IF w.exc # NoExc
                THEN /\ pc' = "running"
                     /\ idx' = idx + 1
                     /\ rerun_stages' = rerun_stages
                     /\ scenario' = IF Faulty(fail, outcome, stages[idx]) THEN Off
                                    ELSE Record(RunEvent(FALSE, w.stages,
                                             [report EXCEPT ![stages[idx].name] = w.rep]))
                ELSE /\ pc' = "running"
                     /\ idx' = idx + 1
                     /\ rerun_stages' = IF w.stages[idx].resolution = "run"
                                        THEN Append(rerun_stages, stages[idx].name)
                                        ELSE rerun_stages
                     /\ scenario' = IF Faulty(fail, outcome, stages[idx]) THEN Off
                                    ELSE scenario
    /\ UNCHANGED <<cache_tag, stage_time, changes, consecutive, before, call, owed,
                   stage_status, uploaded>>

\* Workflow.run: one iteration of the loop over self.stages
RunStage ==
    /\ pc = "running"
    /\ idx <= Len(stages)
    /\ \E fail \in IF faults < MaxFaults
                   THEN FailSets(Stage_run(World({}), idx,
                                           DepChanged(stages[idx], rerun_stages),
                                           Good(stages[idx])).n)
                   ELSE {{}},
          outcome \in IF faults < MaxFaults THEN Outcomes(stages[idx])
                      ELSE {Good(stages[idx])} :
         \E w \in {Stage_run(World(fail), idx, DepChanged(stages[idx], rerun_stages),
                              outcome)} :
             /\ w.rep.ran \/ outcome = Good(stages[idx])
             /\ faults' = (IF Faulty(fail, outcome, stages[idx])
                           THEN faults + 1 ELSE faults)
             /\ stages' = w.stages
             /\ cache_connected' = w.cache_connected
             /\ cache_tags' = w.cache_tags
             /\ local' = w.local
             /\ mtime' = w.mtime
             /\ dirs' = w.dirs
             /\ releases' = w.releases
             /\ assets' = w.assets
             /\ updated_at' = w.updated_at
             /\ now' = w.now
             /\ report' = [report EXCEPT ![stages[idx].name] = w.rep]
             /\ events' = w.events
             /\ exc' = w.exc
             /\ IF w.exc # NoExc
                THEN /\ pc' = "raised"
                     /\ idx' = idx
                     /\ rerun_stages' = rerun_stages
                     /\ scenario' = IF Faulty(fail, outcome, stages[idx]) THEN Off
                                    ELSE Record(RunEvent(FALSE, w.stages,
                                             [report EXCEPT ![stages[idx].name] = w.rep]))
                ELSE /\ pc' = "running"
                     /\ idx' = idx + 1
                     /\ rerun_stages' = IF w.stages[idx].resolution = "run"
                                        THEN Append(rerun_stages, stages[idx].name)
                                        ELSE rerun_stages
                     /\ scenario' = IF Faulty(fail, outcome, stages[idx]) THEN Off
                                    ELSE scenario
    /\ UNCHANGED <<cache_tag, stage_time, changes, consecutive, before, call, owed,
                   stage_status, uploaded>>

\* Workflow.run: the loop is over, "Workflow completed!"
RunEnd ==
    /\ pc = "running"
    /\ idx > Len(stages)
    /\ pc' = "returned"
    /\ scenario' = Record(RunEvent(TRUE, stages, report))
    /\ UNCHANGED <<changes, faults, stages, cache_tag, cache_connected, cache_tags,
                   local, mtime, dirs,
                   stage_time, releases, assets, updated_at, now, idx, rerun_stages,
                   report, events, exc, consecutive, before, call, owed, stage_status, uploaded>>

\* the stages a run() that ends here, raised or in the middle, leaves
\* unresolved though one of their dependencies was executed in it
CutShort ==
    IF pc \notin {"running", "raised"} THEN {}
    ELSE {stages[j].name : j \in {k \in idx..Len(stages) :
              \E a \in 1..(idx - 1) :
                  /\ stages[a].name \in Range(stages[k].dependencies.names)
                  /\ report[stages[a].name].ran}}

\* the process ends (also in the middle of run()) and a new one builds the
\* same Workflow: Stage.__init__ and Workflow.__init__
NewProcess ==
    /\ changes < MaxChanges
    /\ changes' = changes + 1
    /\ stages' = [i \in 1..Len(stages) |-> [stages[i] EXCEPT !.resolution = None]]
    /\ cache_connected' = None
    /\ cache_tags' = <<>>
    /\ pc' = "idle"
    /\ idx' = 1
    /\ rerun_stages' = <<>>
    /\ report' = [s \in StageNames |-> NoReport]
    /\ events' = <<>>
    /\ exc' = NoExc
    /\ consecutive' = FALSE
    /\ owed' = CutShort
    /\ uploaded' = {}
    /\ scenario' = IF pc = "running" THEN Off ELSE Record(ChangeEvent("newprocess", {}))
    /\ UNCHANGED <<cache_tag, local, mtime, dirs, stage_time, releases, assets,
                   updated_at, now, faults, before, call, stage_status>>

\* the file defining a stage is edited
TouchStage(name) ==
    /\ Changed
    /\ \E i \in 1..Len(stages) : stages[i].name = name /\ stages[i].class = "Stage"
    /\ stage_time' = [stage_time EXCEPT ![name] = now]
    /\ now' = now + 1
    /\ scenario' = Off
    /\ UNCHANGED <<stages, cache_tag, cache_connected, cache_tags, local, mtime, dirs,
                   releases, assets, updated_at, faults, before, call, stage_status>>

\* a declared output is written by someone else
WriteFile(f) ==
    /\ Changed
    /\ f \in Declared /\ f.parent \in dirs
    /\ local' = local \cup {f}
    /\ mtime' = [mtime EXCEPT ![f] = now]
    /\ now' = now + 1
    /\ scenario' = Off
    /\ UNCHANGED <<stages, cache_tag, cache_connected, cache_tags, dirs, stage_time,
                   releases, assets, updated_at, faults, before, call, stage_status>>

\* local files are deleted
DeleteFiles(fs) ==
    /\ Changed
    /\ fs # {} /\ fs \subseteq local
    /\ local' = local \ fs
    /\ mtime' = [f \in Files |-> IF f \in fs THEN 0 ELSE mtime[f]]
    /\ scenario' = Record(ChangeEvent("delete", fs))
    /\ UNCHANGED <<stages, cache_tag, cache_connected, cache_tags, dirs, stage_time,
                   releases, assets, updated_at, now, faults, before, call, stage_status>>

\* an output directory is deleted, with the files in it
RemoveDir(d) ==
    /\ Changed
    /\ d \in dirs /\ \E f \in Declared : f.parent = d
    /\ dirs' = dirs \ {d}
    /\ local' = {f \in local : f.parent # d}
    /\ mtime' = [f \in Files |-> IF f.parent = d THEN 0 ELSE mtime[f]]
    /\ scenario' = Off
    /\ UNCHANGED <<stages, cache_tag, cache_connected, cache_tags, stage_time,
                   releases, assets, updated_at, now, faults, before, call, stage_status>>

\* another machine uploads an output to the release of the cache tag
OtherUpload(f) ==
    /\ Changed
    /\ cache_tag # None /\ f \in Declared
    /\ releases' = releases \cup {cache_tag}
    /\ assets' = assets \cup {f.name}
    /\ updated_at' = [updated_at EXCEPT ![f.name] = now]
    /\ now' = now + 1
    /\ scenario' = Off
    /\ UNCHANGED <<stages, cache_tag, cache_connected, cache_tags, local, mtime, dirs,
                   stage_time, faults, before, call, stage_status>>

Next ==
    \/ RunBegin
    \/ RunStage
    \/ RunEnd
    \/ NewProcess
    \/ \E name \in StageNames : TouchStage(name)
    \/ \E f \in Files : WriteFile(f)
    \/ \E fs \in SUBSET local : DeleteFiles(fs)
    \/ \E d \in Dirs : RemoveDir(d)
    \/ \E f \in Files : OtherUpload(f)

Spec == Init /\ [][Next]_vars

-----------------------------------------------------------------------------
(* Runs and cache commands of the workflows with cached stages *)

\* github_release.gh_release_delete(github_name, tag): raises when the call
\* fails and when there is no such release
ReleaseDeleteRaises(w, tag) == Fails(w) \/ tag \notin w.releases

\* self._cache_tags.remove(tag), after the release was deleted with its
\* assets; a tag that is not in the list raises ValueError, which the except
\* of the caller catches
tags_remove(w, tag) ==
    [w EXCEPT !.cache_tags = IF tag \in Range(@)
                             THEN SubSeq(@, 1, First({k \in 1..Len(@) : @[k] = tag}) - 1)
                                  \o SubSeq(@, First({k \in 1..Len(@) : @[k] = tag}) + 1,
                                            Len(@))
                             ELSE @]

\* gh_release_delete of one tag and the removal from _cache_tags; ok is
\* FALSE when the call raised
release_delete(w, tag) ==
    IF ReleaseDeleteRaises(w, tag) THEN [w |-> Called(w), ok |-> FALSE]
    ELSE [w |-> tags_remove([Called(w) EXCEPT
                                !.releases = @ \ {tag},
                                !.assets = IF tag = TagV2 THEN {} ELSE @,
                                !.updated_at = IF tag = TagV2
                                               THEN [a \in AssetNames |-> 0] ELSE @],
                            tag),
          ok |-> tag \in Range(w.cache_tags)]

\* Workflow.delete_cache, after self._connect_to_cache(): the try ... except
delete_cache_connected(w) ==
    IF w.exc # NoExc THEN w ELSE release_delete(w, cache_tag).w

\* Workflow.delete_cache(confirm)
delete_cache(w, confirm) ==
    IF ~ confirm THEN w ELSE delete_cache_connected(connect_to_cache(w))

\* the loop of delete_all_caches over the copy of _cache_tags: the first
\* exception ends it
RECURSIVE delete_tags(_, _)
delete_tags(w, tags) ==
    IF tags = <<>> THEN w
    ELSE IF release_delete(w, tags[1]).ok
    THEN delete_tags(release_delete(w, tags[1]).w, Tail(tags))
    ELSE release_delete(w, tags[1]).w

\* Workflow.delete_all_caches, after self._connect_to_cache()
delete_all_caches_connected(w) ==
    IF w.exc # NoExc THEN w ELSE delete_tags(w, w.cache_tags)

\* Workflow.delete_all_caches(confirm)
delete_all_caches(w, confirm) ==
    IF ~ confirm THEN w ELSE delete_all_caches_connected(connect_to_cache(w))

\* Workflow.__init__ and the add_stage calls of a workflow with cached stages
InitCache ==
    /\ stages \in CachedWorkflows
    /\ cache_tag \in {None, TagV2}
    /\ cache_connected = None
    /\ cache_tags = <<>>
    /\ local = {}
    /\ mtime = [f \in Files |-> 0]
    /\ dirs = Dirs
    /\ stage_time = [s \in StageNames |-> 0]
    /\ releases = {}
    /\ assets = {}
    /\ updated_at = [a \in AssetNames |-> 0]
    /\ now = 1
    /\ changes = 0
    /\ faults = 0
    /\ pc = "idle"
    /\ idx = 1
    /\ rerun_stages = <<>>
    /\ report = [s \in StageNames |-> NoReport]
    /\ events = <<>>
    /\ exc = NoExc
    /\ consecutive = FALSE
    /\ scenario = <<>>
    /\ before = <<>>
    /\ call = NoCall
    /\ owed = {}
    /\ stage_status = NoStatus
    /\ uploaded = {}

\* a cache command is called between two run() calls; w is the world it leaves
CacheCommand(w, fail) ==
    /\ Changed
    /\ faults' = (IF fail # {} THEN faults + 1 ELSE faults)
    /\ cache_connected' = w.cache_connected
    /\ cache_tags' = w.cache_tags
    /\ releases' = w.releases
    /\ assets' = w.assets
    /\ updated_at' = w.updated_at
    /\ scenario' = Off
    /\ UNCHANGED <<stages, cache_tag, local, mtime, dirs, stage_time, now, before,
                   call, stage_status>>

\* workflow.delete_cache(confirm) is called
DeleteCache ==
    \E confirm \in BOOLEAN :
        \E fail \in IF faults < MaxFaults
                     THEN FailSets(delete_cache(World({}), confirm).n) ELSE {{}} :
            CacheCommand(delete_cache(World(fail), confirm), fail)

\* workflow.delete_all_caches(confirm) is called
DeleteAllCaches ==
    \E confirm \in BOOLEAN :
        \E fail \in IF faults < MaxFaults
                     THEN FailSets(delete_all_caches(World({}), confirm).n) ELSE {{}} :
            CacheCommand(delete_all_caches(World(fail), confirm), fail)

NextCache ==
    \/ Next
    \/ DeleteCache
    \/ DeleteAllCaches

SpecCache == InitCache /\ [][NextCache]_vars

-----------------------------------------------------------------------------
(* Registration: add_stage calls on an empty Workflow *)

\* the name argument
RegNames == {"A", "B"}

\* the stage argument: None, a subclass of Stage, something else
RegClasses == {None, "Stage", "int"}

\* the dependencies argument: None, a str, a list of at most MaxDeps names
RegDependencies ==
    {DepNone} \cup {DepStr(n) : n \in RegNames}
        \cup {DepList(ns) : ns \in UNION {[1..k -> RegNames] : k \in 0..MaxDeps}}

\* Workflow.__init__: no stage is registered
InitReg ==
    /\ stages = <<>>
    /\ cache_tag = None
    /\ cache_connected = None
    /\ cache_tags = <<>>
    /\ local = {}
    /\ mtime = [f \in Files |-> 0]
    /\ dirs = Dirs
    /\ stage_time = [s \in StageNames |-> 0]
    /\ releases = {}
    /\ assets = {}
    /\ updated_at = [a \in AssetNames |-> 0]
    /\ now = 1
    /\ changes = 0
    /\ faults = 0
    /\ pc = "idle"
    /\ idx = 1
    /\ rerun_stages = <<>>
    /\ report = [s \in StageNames |-> NoReport]
    /\ events = <<>>
    /\ exc = NoExc
    /\ consecutive = FALSE
    /\ scenario = <<>>
    /\ before = <<>>
    /\ call = NoCall
    /\ owed = {}
    /\ stage_status = NoStatus
    /\ uploaded = {}

\* a call of Workflow.add_stage, returning or raising
AddStage(name, stage, output, dependencies, cache) ==
    /\ \E r \in {add_stage(stages, name, stage, output, dependencies, cache)} :
           /\ stages' = r.stages
           /\ exc' = r.exc
    /\ before' = stages
    /\ call' = [name |-> name, stage |-> stage, dependencies |-> dependencies]
    /\ UNCHANGED <<cache_tag, cache_connected, cache_tags, local, mtime, dirs,
                   stage_time, releases, assets, updated_at, now, changes, faults,
                   pc, idx, rerun_stages, report, events, consecutive, scenario, owed,
                   stage_status, uploaded>>

NextReg ==
    \E name \in RegNames, stage \in RegClasses, dependencies \in RegDependencies :
        AddStage(name, stage, OutPath(Path("out", name)), dependencies, FALSE)

SpecReg == InitReg /\ [][NextReg]_vars

-----------------------------------------------------------------------------
(* Queries: Stage.query(workflow) on files, assets and stage files of any age *)

\* the files or assets of a set, each with a timestamp; 0 for the others
Stamps(all, present) ==
    {t \in [all -> 0..MaxTime] : \A x \in all : t[x] = 0 <=> x \notin present}

\* a Workflow was built in a new process; some outputs exist locally, the
\* release of the cache tag may exist and hold assets
InitQuery ==
    /\ stages \in Workflows
    /\ cache_tag \in {None, TagV2}
    /\ cache_connected = None
    /\ cache_tags = <<>>
    /\ local \in SUBSET Declared
    /\ mtime \in Stamps(Files, local)
    /\ dirs = Dirs
    /\ stage_time \in [StageNames -> 1..MaxTime]
    /\ \A n \in StageNames :
           (\A i \in 1..Len(stages) : stages[i].name # n) => stage_time[n] = 1
    /\ assets \in SUBSET {f.name : f \in Declared}
    /\ releases = IF assets = {} THEN {} ELSE {TagV2}
    /\ cache_tag = None => assets = {}
    /\ updated_at \in Stamps(AssetNames, assets)
    /\ now = MaxTime + 1
    /\ changes = 0
    /\ faults = 0
    /\ pc = "idle"
    /\ idx = 1
    /\ rerun_stages = <<>>
    /\ report = [s \in StageNames |-> NoReport]
    /\ events = <<>>
    /\ exc = NoExc
    /\ consecutive = FALSE
    /\ scenario = <<>>
    /\ before = <<>>
    /\ call = NoCall
    /\ owed = {}
    /\ stage_status = NoStatus
    /\ uploaded = {}

\* stage.query(workflow) is called on the stage at position i
QueryStage(i) ==
    /\ i \in 1..Len(stages)
    /\ ~ report[stages[i].name].queried
    /\ \E q \in {query(World({}), stages[i])} :
           /\ cache_connected' = q.w.cache_connected
           /\ cache_tags' = q.w.cache_tags
           /\ releases' = q.w.releases
           /\ exc' = q.w.exc
           /\ report' = [report EXCEPT ![stages[i].name] =
                            [NoReport EXCEPT !.queried = TRUE, !.status = q.status]]
    /\ UNCHANGED <<stages, cache_tag, local, mtime, dirs, stage_time, assets,
                   updated_at, now, changes, faults, pc, idx, rerun_stages, events,
                   consecutive, scenario, before, call, owed, stage_status, uploaded>>

\* workflow.query_stages() is called
QueryStages ==
    /\ stage_status = NoStatus
    /\ stage_status' = query_stages(World({}))
    /\ UNCHANGED <<stages, cache_tag, cache_connected, cache_tags, local, mtime, dirs,
                   stage_time, releases, assets, updated_at, now, changes, faults,
                   pc, idx, rerun_stages, report, events, exc, consecutive,
                   scenario, before, call, owed, uploaded>>

NextQuery ==
    \/ \E i \in 1..Len(stages) : QueryStage(i)
    \/ QueryStages

SpecQuery == InitQuery /\ [][NextQuery]_vars

-----------------------------------------------------------------------------
(* The claims *)

\* C1 (cascade): in a run(), if stage B lists stage A as a dependency and A's
\* resolution is "run", then B's _run was called in this run() and B's
\* resolution is "run".
C1_Cascade ==
    \A a, b \in 1..Len(stages) :
        (/\ pc # "idle" /\ faults = 0
         /\ a < b /\ b < idx
         /\ stages[a].name \in Range(stages[b].dependencies.names)
         /\ stages[a].resolution = "run")
        => (report[stages[b].name].ran /\ stages[b].resolution = "run")

\* C2 (three runs): on the workflow of A and B (B depends on A, no cache), the
\* first run() executes A and B, the second run() executes nothing, and after
\* a.txt is deleted the third run() executes A and then B and returns.
C2_ThreeRuns ==
    (/\ stages[1].name = "A"
     /\ Len(scenario) = 4
     /\ scenario[1].ev = "run" /\ scenario[2].ev = "run"
     /\ scenario[3].ev = "delete" /\ scenario[3].files = {fA}
     /\ scenario[4].ev = "run")
    => (/\ scenario[1].executed = <<"A", "B">> /\ scenario[1].returned
        /\ scenario[2].executed = <<>> /\ scenario[2].returned
        /\ scenario[4].executed = <<"A", "B">> /\ scenario[4].returned)

\* C3 (resolution is per-run): when run() starts, before its first stage.run,
\* every stage's resolution is None.
C3_ResetAtStart ==
    (pc = "running" /\ idx = 1)
    => \A i \in 1..Len(stages) : stages[i].resolution = None

C5_OwnFreshness ==
    \A a, b \in 1..Len(stages) :
        (/\ pc # "idle" /\ faults = 0
         /\ a < b /\ b < idx
         /\ stages[b].dependencies.names = <<stages[a].name>>
         /\ stages[a].resolution \in {"local", "cache"})
        => (/\ ~ report[stages[b].name].dep_changed
            /\ report[stages[b].name].status.newest = "local"
                  => (/\ ~ report[stages[b].name].ran
                      /\ ~ report[stages[b].name].download
                      /\ stages[b].resolution = "local")
            /\ report[stages[b].name].status.newest = "cache"
                  => (/\ report[stages[b].name].download
                      /\ ~ report[stages[b].name].ran
                      /\ stages[b].resolution = "cache")
            /\ report[stages[b].name].status.newest = "stage"
                  => (/\ report[stages[b].name].ran
                      /\ stages[b].resolution = "run"))

\* C6 (upload after execution): when a stage with cache = True had its _run
\* called in a run() with the cache connected and a cache tag set, and its
\* stage.run returned, every output of the stage was uploaded in that
\* stage.run.
C6_UploadAfterRun ==
    \A i \in 1..Len(stages) :
        (/\ pc # "idle" /\ faults = 0 /\ i < idx
         /\ stages[i].cache /\ report[stages[i].name].ran
         /\ cache_connected = "True" /\ cache_tag # None)
        => \A k \in 1..Len(output_list(stages[i])) :
               output_list(stages[i])[k].name \in report[stages[i].name].put

\* C7 (cross-process cache reuse): with a cache tag set and no release at
\* first, on the workflow of the cached stage C, the first run() executes C
\* and uploads c.txt; after all local files are deleted and a new process
\* builds the workflow, its run() ends with C's resolution "cache" and does
\* not call C's _run.
C7_CrossProcess ==
    (/\ stages[1].name = "C" /\ cache_tag = TagV2
     /\ Len(scenario) = 4
     /\ scenario[1].ev = "run"
     /\ scenario[2].ev = "delete" /\ scenario[2].files = {fC, fE}
     /\ scenario[3].ev = "newprocess"
     /\ scenario[4].ev = "run")
    => (/\ scenario[1].executed = <<"C", "E">>
        /\ fC.name \in scenario[1].put
        /\ scenario[4].resolutions[1] = "cache"
        /\ "C" \notin Range(scenario[4].executed))

\* C8 (unresolvable passthrough): when a DummyStage is queried with no local
\* output and no cache tag is set, run() raises the error of the DummyStage
\* branch of _pre_run, naming the stage and a missing output, and no later
\* stage is queried.
C8_Unresolvable ==
    \A i \in 1..Len(stages) :
        (/\ pc # "idle" /\ faults = 0 /\ cache_tag = None
         /\ stages[i].class = "DummyStage" /\ ~ stages[i].cache
         /\ report[stages[i].name].queried
         /\ ~ report[stages[i].name].status.local)
        => (/\ pc = "raised"
            /\ exc.type = "RuntimeError:DummyStage"
            /\ exc.stage = stages[i].name
            /\ exc.file \in Range(output_list(stages[i]))
            /\ \A j \in (i + 1)..Len(stages) : ~ report[stages[j].name].queried)

\* C9 (a failed add_stage changes nothing): add_stage raises when the name is
\* the name of a registered stage and when a named dependency is not the name
\* of a registered stage, and after an add_stage that raised the stage list is
\* the one before the call.
C9_FailedAddStage ==
    call # NoCall =>
        /\ call.name \in {before[i].name : i \in 1..Len(before)}
              => (exc.type = "ValueError:name" /\ stages = before)
        /\ (\E k \in 1..Len(call.dependencies.names) :
                call.dependencies.names[k] \notin {before[i].name : i \in 1..Len(before)})
              => (exc.type \in {"ValueError:name", "ValueError:dependency"}
                  /\ stages = before)
        /\ exc # NoExc => stages = before

\* C9: an add_stage with the name of the registered stage and with a
\* dependency that is not registered has raised.
C9_Witness ==
    /\ Len(before) = 1
    /\ call.name = before[1].name
    /\ call.dependencies.tag = "str"
    /\ call.dependencies.names[1] # before[1].name
    /\ exc.type = "ValueError:name"

\* C10 (registry invariant): the names of the registered stages are pairwise
\* distinct and every dependency name of the stage at position i is the name
\* of a stage at a position j < i.
C10_Registry ==
    /\ \A i, j \in 1..Len(stages) : stages[i].name = stages[j].name => i = j
    /\ \A i \in 1..Len(stages) :
           \A k \in 1..Len(stages[i].dependencies.names) :
               \E j \in 1..(i - 1) : stages[j].name = stages[i].dependencies.names[k]

\* C10: two stages are registered, the second depends on the first, and an
\* add_stage that names the second as its dependency has just raised.
C10_Witness ==
    /\ Len(stages) = 2
    /\ stages[2].dependencies = DepStr(stages[1].name)
    /\ call.dependencies = DepStr(stages[2].name)
    /\ exc # NoExc

\* C11 (outputs exist after a successful run): when run() has returned, every
\* declared output of every stage exists locally; and when a stage's _run was
\* called and returned while a declared output is missing, run() has raised
\* the error of _post_run naming the stage and a missing output, and the run()
\* is over.
C11_OutputsExist ==
    /\ pc = "returned" => Declared \subseteq local
    /\ \A i \in 1..Len(stages) :
           (/\ pc # "idle" /\ report[stages[i].name].ran
            /\ exc.type # "StageError"
            /\ ~ Range(output_list(stages[i])) \subseteq local)
           => (/\ pc = "raised" /\ idx = i
               /\ exc.type = "RuntimeError:missing"
               /\ exc.stage = stages[i].name
               /\ exc.file \in Range(output_list(stages[i])) \ local)

\* C11: a stage's _run returned without writing its output, and run() raised.
C11_Witness ==
    /\ pc = "raised" /\ exc.type = "RuntimeError:missing"
    /\ report[exc.stage].ran
    /\ exc.file \notin local

\* C12 (single forward pass, fail-fast): in a run() the stages are resolved in
\* registration order, a stage is untouched until the stage before it is
\* resolved, what a run() did with a stage is settled by one stage.run, and
\* when a stage.run raises the run() is over: the position stays at that
\* stage, no later stage is queried, downloaded, uploaded or executed, and
\* only a new run() call or a change follows.
C12_FailFast ==
    /\ [](pc # "idle" =>
            /\ idx \in 1..(Len(stages) + 1)
            /\ \A j \in 1..Len(stages) :
                   (j > idx \/ (j = idx /\ pc = "running"))
                       => report[stages[j].name] = NoReport
            /\ exc # NoExc <=> pc = "raised"
            /\ pc = "raised" => exc.type # "none" /\ idx <= Len(stages))
    /\ [][/\ (pc = "running" /\ pc' # "idle") =>
               /\ idx' \in {idx, idx + 1}
               /\ idx' = idx <=> pc' # "running"
               /\ \A n \in StageNames :
                      report'[n] # report[n]
                          => (/\ idx <= Len(stages) /\ n = stages[idx].name
                              /\ report[n] = NoReport)
          /\ pc = "raised" =>
               \/ pc' = "idle"
               \/ /\ pc' = "running" /\ idx' = 1
                  /\ report' = [n \in StageNames |-> NoReport]]_vars

\* C12: the first stage's _run raised, and the second stage is untouched.
C12_Witness ==
    /\ pc = "raised" /\ idx = 1 /\ Len(stages) = 2
    /\ exc.type = "StageError"
    /\ report[stages[1].name].ran
    /\ report[stages[2].name] = NoReport

\* C13 (safe resumption): when a run() was cut short, by the end of the process
\* or by an exception, after a stage had executed and before a stage depending
\* on it was resolved, the first run() of the new process, once it has
\* returned, has called the _run of that dependent stage.
C13_SafeResumption ==
    pc = "returned" => \A n \in owed : report[n].ran

\* C14 (download aligns timestamps): when a stage.run made the download and
\* left the stage with resolution "cache", every output of the stage exists
\* locally with the modification time the release records for its asset, and
\* a query made now gives newest = "local".
C14_DownloadAligns ==
    \A i \in 1..Len(stages) :
        (/\ pc # "idle" /\ i < idx
         /\ report[stages[i].name].download
         /\ stages[i].resolution = "cache")
        => (/\ \A k \in 1..Len(output_list(stages[i])) :
                   /\ output_list(stages[i])[k] \in local
                   /\ mtime[output_list(stages[i])[k]]
                          = updated_at[output_list(stages[i])[k].name]
            /\ query(World({}), stages[i]).status.newest = "local")

\* C15 (download failure falls through to execution): when the latest
\* stage.run got newest = "cache" from its query with dep_changed False and
\* its download did not fetch every output, the exception of the download did
\* not end the run(): the stage's _run was called in this stage.run, and the
\* stage.run returned with resolution "run" unless _run itself raised or left
\* an output missing.
C15_DownloadFallsThrough ==
    \A i \in 1..Len(stages) :
        (/\ pc # "idle"
         /\ i = (IF pc = "raised" THEN idx ELSE idx - 1)
         /\ report[stages[i].name].status.newest = "cache"
         /\ ~ report[stages[i].name].dep_changed
         /\ report[stages[i].name].download
         /\ \E k \in 1..Len(output_list(stages[i])) :
                <<"get", output_list(stages[i])[k].name>> \notin Range(events))
        => (/\ report[stages[i].name].ran
            /\ exc.type \in {"none", "StageError", "RuntimeError:missing"}
            /\ exc = NoExc => stages[i].resolution = "run")

\* C16 (upload failure is soft): when a cache tag is set and the latest
\* stage.run was of a stage with cache = True and took the skip branch
\* (newest = "local", dep_changed False), no failure of a Github call of
\* _cache_output ended the run(): the stage has resolution "local", and the
\* stage.run returned unless an output is missing.
C16_UploadSoft ==
    \A i \in 1..Len(stages) :
        (/\ pc # "idle"
         /\ i = (IF pc = "raised" THEN idx ELSE idx - 1)
         /\ stages[i].cache /\ cache_tag # None
         /\ report[stages[i].name].status.newest = "local"
         /\ ~ report[stages[i].name].dep_changed)
        => (/\ stages[i].resolution = "local"
            /\ exc.type \in {"none", "RuntimeError:missing"})

C18_CacheFlagGates ==
    \A i \in 1..Len(stages) :
        (/\ pc # "idle"
         /\ i = (IF pc = "raised" THEN idx ELSE idx - 1)
         /\ report[stages[i].name].queried)
        => (/\ ~ stages[i].cache =>
                  /\ ~ report[stages[i].name].status.cache
                  /\ ~ report[stages[i].name].download
            /\ (stages[i].cache /\ cache_connected = "True" /\ faults = 0) =>
                  (report[stages[i].name].status.cache <=>
                      \A k \in 1..Len(output_list(stages[i])) :
                          \/ /\ output_list(stages[i])[k].name \in assets
                             /\ output_list(stages[i])[k].name
                                    \notin report[stages[i].name].put
                          \/ <<"delete", output_list(stages[i])[k].name>>
                                 \in Range(events)))

\* C19 (tie-break of newest): the newest of a query is "local" when the local
\* time is at least the cache time and the stage time, else "cache" when the
\* cache time is at least the stage time, else "stage"; the local time being
\* the least mtime of the outputs, or -99 when one is missing, the cache time
\* the least updated_at of their assets, or -99 when one is missing or the
\* cache is not connected, and the stage time the mtime of the stage's file,
\* or -100 for a DummyStage.
C19_TieBreak ==
    \A i \in 1..Len(stages) :
        report[stages[i].name].queried =>
            LET out == Range(output_list(stages[i]))
                lt == IF out \subseteq local
                      THEN CHOOSE t \in {mtime[f] : f \in out} :
                               \A f \in out : t <= mtime[f]
                      ELSE -99
                ct == IF /\ cache_connected = "True" /\ cache_tag \in releases
                         /\ {f.name : f \in out} \subseteq assets
                      THEN CHOOSE t \in {updated_at[f.name] : f \in out} :
                               \A f \in out : t <= updated_at[f.name]
                      ELSE -99
                st == IF stages[i].class = "DummyStage" THEN -100
                      ELSE stage_time[stages[i].name]
            IN  report[stages[i].name].status.newest =
                    (IF lt >= ct /\ lt >= st THEN "local"
                     ELSE IF ct >= st THEN "cache" ELSE "stage")

\* C19: a stage was queried whose outputs are as old locally as in the cache,
\* and newer than the stage's file.
C19_Witness ==
    \E i \in 1..Len(stages) :
        /\ report[stages[i].name].queried
        /\ report[stages[i].name].status.local
        /\ report[stages[i].name].status.cache
        /\ \A k \in 1..Len(output_list(stages[i])) :
               /\ mtime[output_list(stages[i])[k]]
                      = updated_at[output_list(stages[i])[k].name]
               /\ mtime[output_list(stages[i])[k]] > stage_time[stages[i].name]
        /\ report[stages[i].name].status.newest = "local"

\* C20 (nothing anywhere means stage): when a DummyStage is queried with an
\* output missing locally and no copy in the cache, the newest of the query is
\* "stage".
C20_NothingMeansStage ==
    \A i \in 1..Len(stages) :
        (/\ report[stages[i].name].queried
         /\ stages[i].class = "DummyStage"
         /\ ~ report[stages[i].name].status.local
         /\ ~ report[stages[i].name].status.cache)
        => report[stages[i].name].status.newest = "stage"

\* C21 (query_stages agrees with run's view): once query_stages has returned,
\* its entry for every registered stage is the status that stage's query gives
\* against the workflow's cache, as _pre_run evaluates it; its cache field is
\* True when the cache is connected and the release holds an asset for every
\* output of the stage; and the call changes no stage, local file or asset.
C21_QueryAllAgrees ==
    /\ [](stage_status # NoStatus =>
            \A i \in 1..Len(stages) :
                /\ stage_status[stages[i].name] = query(World({}), stages[i]).status
                /\ (/\ query(World({}), stages[i]).w.cache_connected = "True"
                    /\ cache_tag \in releases
                    /\ \A k \in 1..Len(output_list(stages[i])) :
                           output_list(stages[i])[k].name \in assets)
                   => stage_status[stages[i].name].cache)
    /\ [][stage_status' # stage_status =>
              /\ stages' = stages
              /\ local' = local /\ mtime' = mtime
              /\ assets' = assets /\ updated_at' = updated_at]_vars

\* C22 (the DummyStage error is raised only when there is nothing to use):
\* when a DummyStage was queried in a run() and the error of the DummyStage
\* branch of _pre_run ended the run(), the query reported neither local nor
\* cache; a DummyStage whose outputs all exist locally does not make run()
\* raise, also when a dependency executed in the same run().
C22_DummyErrorOnlyIfNothing ==
    \A i \in 1..Len(stages) :
        (/\ pc # "idle" /\ faults = 0
         /\ stages[i].class = "DummyStage"
         /\ report[stages[i].name].queried)
        => (/\ (pc = "raised" /\ idx = i /\ exc.type = "RuntimeError:DummyStage")
                => (/\ ~ report[stages[i].name].status.local
                    /\ ~ report[stages[i].name].status.cache)
            /\ report[stages[i].name].status.local => ~ (pc = "raised" /\ idx = i))

\* C23 (per-file opportunistic upload): when a stage.run in which no Github
\* call failed took the skip branch (newest = "local", dep_changed False) of a
\* stage with cache = True whose outputs have distinct file names, with a
\* cache tag set and the cache connected, the outputs uploaded are exactly the
\* outputs that existed locally with an mtime greater than the updated_at of
\* their own asset (an output with no asset is older than any file); the
\* asset of any other output is neither deleted nor uploaded.
C23_PerFileUpload ==
    [][\A i \in 1..Len(stages) :
          (/\ pc = "running" /\ idx = i /\ pc' # "idle" /\ faults' = faults
           /\ stages[i].cache /\ cache_tag # None /\ cache_connected' = "True"
           /\ \A k, l \in 1..Len(output_list(stages[i])) :
                  output_list(stages[i])[k].name = output_list(stages[i])[l].name
                      => k = l
           /\ report'[stages[i].name].status.newest = "local"
           /\ ~ report'[stages[i].name].dep_changed
           /\ stages'[i].resolution = "local")
          => \A f \in Range(output_list(stages[i])) :
                 IF /\ f \in local
                    /\ mtime[f] > (IF f.name \in assets THEN updated_at[f.name]
                                   ELSE MissingTime)
                 THEN /\ <<"put", f.name>> \in Range(events')
                      /\ f.name \in assets'
                 ELSE /\ <<"put", f.name>> \notin Range(events')
                      /\ <<"delete", f.name>> \notin Range(events')
                      /\ (f.name \in assets) = (f.name \in assets')
                      /\ updated_at'[f.name] = updated_at[f.name]]_vars

\* C24 (delete before upload): in a stage.run, every upload of an asset whose
\* name the release holds at the moment of the upload (it held it before the
\* stage.run and the name was not deleted since, or an earlier upload of the
\* same stage.run created it) comes right after the delete of that asset.
C24_DeleteBeforeUpload ==
    [][(pc = "running" /\ pc' \in {"running", "raised"}) =>
          \A k \in 1..Len(events') :
              (/\ events'[k][1] = "put"
               /\ LET earlier == {j \in 1..(k - 1) :
                                     /\ events'[j][2] = events'[k][2]
                                     /\ events'[j][1] \in {"put", "delete"}}
                  IN  IF earlier = {} THEN events'[k][2] \in assets
                      ELSE events'[CHOOSE j \in earlier :
                                       \A l \in earlier : l <= j][1] = "put")
              => (k > 1 /\ events'[k - 1] = <<"delete", events'[k][2]>>)]_vars

\* C25 (the release exists before it is used): whenever _cache_connected is
\* True and a cache tag is set, the release of the cache tag exists, also
\* after a Github call of _connect_to_cache failed and after a cache command;
\* and with no cache tag set no release is ever created.
C25_NamespaceExists ==
    /\ cache_tag = None => releases = {}
    /\ (cache_connected = "True" /\ cache_tag # None) => cache_tag \in releases

\* C26 (output directories are prepared): a missing parent directory of a
\* declared output does not end run() with an exception of
\* _prep_output_destination; and when a stage's _run was called or its
\* download was made, the parent directory of every output of the stage
\* exists.
C26_OutputDirsPrepared ==
    /\ exc.type # "AttributeError"
    /\ \A i \in 1..Len(stages) :
           (/\ pc # "idle"
            /\ \/ report[stages[i].name].ran
               \/ (report[stages[i].name].download /\ stages[i].resolution = "cache"))
           => \A k \in 1..Len(output_list(stages[i])) :
                  output_list(stages[i])[k].parent \in dirs

\* C27 (the "Edge case in run logic!" error is unreachable): no run() ends
\* with that error; a stage whose _run was called after its query was given
\* one of the four reasons; and for every status (local, cache, newest) and
\* dep_changed that the skip branch does not resolve, whatever the stage class
\* and the outcome of the download, one of the four reasons applies.
C27_EdgeCaseUnreachable ==
    /\ exc.type # "RuntimeError:EdgeCase"
    /\ \A i \in 1..Len(stages) :
           (pc # "idle" /\ report[stages[i].name].ran)
           => report[stages[i].name].reason \in
                  {"output does not exist", "cache download failed",
                   "stage changed", "dependency changed"}
    /\ \A st \in [local : BOOLEAN, cache : BOOLEAN,
                  newest : {"local", "cache", "stage"}], dc \in BOOLEAN :
           ~ (st.newest = "local" /\ ~ dc) => RunReason(st, dc) # None

\* C27: a stage whose local output is the newest was executed because its
\* dependency had executed.
C27_Witness ==
    \E i \in 1..Len(stages) :
        /\ pc = "returned"
        /\ report[stages[i].name].ran
        /\ report[stages[i].name].status.newest = "local"
        /\ report[stages[i].name].dep_changed
        /\ report[stages[i].name].reason = "dependency changed"

\* C28 (the sync reaches a fixpoint): with no fault, an output that a
\* stage.run uploaded has the mtime that the release records for its asset
\* (for outputs of distinct file names); and when a run() began right after a
\* run() that returned having uploaded an output of a stage, with nothing
\* changed in between, that stage is resolved "local" and no put, delete or
\* get is issued for it.
C28_SyncFixpoint ==
    \A i \in 1..Len(stages) :
        (pc # "idle" /\ faults = 0 /\ i < idx)
        => (/\ \A k \in 1..Len(output_list(stages[i])) :
                   (/\ output_list(stages[i])[k].name \in report[stages[i].name].put
                    /\ \A l \in 1..Len(output_list(stages[i])) :
                           output_list(stages[i])[l].name
                               = output_list(stages[i])[k].name => l = k)
                   => mtime[output_list(stages[i])[k]]
                          = updated_at[output_list(stages[i])[k].name]
            /\ (/\ consecutive
                /\ \E k \in 1..Len(output_list(stages[i])) :
                       output_list(stages[i])[k].name \in uploaded)
               => (/\ stages[i].resolution = "local"
                   /\ ~ report[stages[i].name].download
                   /\ ~ report[stages[i].name].ran
                   /\ report[stages[i].name].put = {}))

\* C29 (a DummyStage never counts as executed): when run() has returned, no
\* DummyStage has resolution "run" or is in rerun_stages, and no stage got
\* dep_changed True on account of a DummyStage only.
C29_DummyNeverRan ==
    pc = "returned" =>
        \A i \in 1..Len(stages) :
            /\ stages[i].class = "DummyStage" =>
                   /\ stages[i].resolution # "run"
                   /\ stages[i].name \notin Range(rerun_stages)
            /\ (/\ report[stages[i].name].dep_changed
                /\ stages[i].dependencies.names # <<>>)
               => \E j \in 1..Len(stages) :
                      /\ stages[j].name \in Range(stages[i].dependencies.names)
                      /\ stages[j].class # "DummyStage"

\* C30 (stages with cache = False never write to the remote store): the
\* stage.run of a stage with cache = False issues no put and no delete and
\* leaves the assets and their updated_at as they were; the assets change
\* only in the stage.run of a stage with cache = True, by a cache command, or
\* by another machine between two run() calls.
C30_CacheOffNoWrites ==
    [][/\ (/\ pc = "running" /\ pc' \in {"running", "raised"}
           /\ idx <= Len(stages) /\ ~ stages[idx].cache)
          => (/\ \A k \in 1..Len(events') : events'[k][1] \notin {"put", "delete"}
              /\ report'[stages[idx].name].put = {}
              /\ assets' = assets
              /\ updated_at' = updated_at)
       /\ (assets' # assets \/ updated_at' # updated_at)
          => \/ (/\ pc = "running" /\ pc' \in {"running", "raised"}
                 /\ idx <= Len(stages) /\ stages[idx].cache)
             \/ (pc' = "idle" /\ changes' = changes + 1)]_vars

\* C30: a stage with cache = False was resolved "local" with the cache
\* connected while the release holds no asset for its output.
C30_Witness ==
    \E i \in 1..Len(stages) :
        /\ pc = "returned"
        /\ ~ stages[i].cache /\ stages[i].resolution = "local"
        /\ report[stages[i].name].status.newest = "local"
        /\ Range(output_list(stages[i])) \subseteq local
        /\ cache_connected = "True" /\ cache_tag \in releases
        /\ \A k \in 1..Len(output_list(stages[i])) :
               output_list(stages[i])[k].name \notin assets

====
